---- MODULE Spec2Model ----
(***************************************************************************)
(* Model of the Obsidian inline-translate plugin (src/main.ts).            *)
(*                                                                         *)
(* Text is a sequence of one-character strings; "\n" is the newline.  The  *)
(* document is the editor's sequence of lines.  Line numbers and character *)
(* offsets are 0-based as in the editor API, so line n of the editor is    *)
(* doc[n + 1].  One behaviour is one command invocation on a start         *)
(* document chosen by Init.                                                *)
(***************************************************************************)
EXTENDS Integers, Sequences, FiniteSets, TLC

VARIABLES
    doc,            \* editor: the document, a sequence of lines
    selFrom,        \* editor.getCursor('from'): [line, ch]
    selTo,          \* editor.getCursor('to'):   [line, ch]
    settings,       \* this.settings
    cmd,            \* the command whose editorCallback is running
    pc,             \* position of the callback
    i,              \* loop index of inline-translate-line
    endLine,        \* upper bound of the loop
    selection,      \* const selection = editor.getSelection()
    line,           \* const line = editor.getLine(i)
    pending,        \* the parameter text of the translateText call in flight
    translatedText, \* value translateText resolved to
    notices,        \* every Notice shown, in order
    clipboard,      \* system clipboard
    doc0,           \* history: the document at command start
    from0,          \* history: selection start at command start
    to0,            \* history: selection end at command start
    startLine,      \* startLine of the per-line command
    origin,         \* history: per line of doc, its line number + 1 in doc0, 0 if inserted
    calls,          \* history: every translate call, [text, org, bt, to, from]
    results,        \* history: what each translateText call returned and whether it failed
    reads,          \* history: every getLine of the loop, [idx, org, call, end]
    mutations,      \* history: number of document mutations
    loaded,         \* loadSettings has run: this.settings is defined
    persisted,      \* what loadData() returns: the plugin's stored data
    saves,          \* saveData calls in flight: the settings each was given
    edits,          \* number of user edits so far (settings tab, editor)
    foreign         \* history: document mutations not made by the command cmd

vars == <<doc, selFrom, selTo, settings, cmd, pc, i, endLine, selection, line, pending,
          translatedText, notices, clipboard, doc0, from0, to0, startLine,
          origin, calls, results, reads, mutations, loaded, persisted, saves,
          edits, foreign>>

----------------------------------------------------------------------------
(* Bounds *)

MaxDocLines == 3
MaxRespLines == 3
MaxEdits == 2

\* No run of one command grows the document beyond this (each of at most
\* MaxDocLines iterations inserts at most MaxRespLines + 3 lines).
MaxLen == MaxDocLines * (MaxRespLines + 4)

----------------------------------------------------------------------------
(* Text *)

NL == "\n"

Hello == <<"H", "e", "l", "l", "o">>
Bonjour == <<"B", "o", "n", "j", "o", "u", "r">>

\* A string literal cannot hold the backquote character: "bq" stands for it.
Backquote == "bq"
Fence == <<Backquote, Backquote, Backquote>>
QuotePrefix == <<">", " ">>
CalloutHeader ==
    <<">", " ", "[", "!", "t", "r", "a", "n", "s", "l", "a", "t", "i", "o", "n",
      "]", "-", " ", ".", ".", ".">>

NoSelectionNotice == "No text selected for translation."
ErrorNotice == "Error translating text. Please try again later."

\* String.prototype.split('\n'): the pieces between newlines, at least one.
RECURSIVE SplitFrom(_, _, _)
SplitFrom(s, k, cur) ==
    IF k > Len(s) THEN <<cur>>
    ELSE IF s[k] = NL THEN <<cur>> \o SplitFrom(s, k + 1, <<>>)
    ELSE SplitFrom(s, k + 1, Append(cur, s[k]))

Split(s) == SplitFrom(s, 1, <<>>)

\* Array.prototype.join('\n'): the first n pieces, a newline between each two.
RECURSIVE JoinFirst(_, _)
JoinFirst(ls, n) ==
    IF n = 0 THEN <<>>
    ELSE IF n = 1 THEN ls[1]
    ELSE JoinFirst(ls, n - 1) \o <<NL>> \o ls[n]

Join(ls) == JoinFirst(ls, Len(ls))

\* lines.map(line => `> ${line}`)
MapQuote(ls) == [k \in 1..Len(ls) |-> QuotePrefix \o ls[k]]

\* /^\s*$/.test(s)
Whitespace == {" ", "\t", NL}
IsBlank(s) == \A k \in 1..Len(s) : s[k] \in Whitespace

Newlines(s) == Cardinality({k \in 1..Len(s) : s[k] = NL})

\* Language codes are text, like every string the user can type.
En == <<"e", "n">>
Fr == <<"f", "r">>
De == <<"d", "e">>
Auto == <<"a", "u", "t", "o">>

\* String.prototype.trim: s without its leading and trailing whitespace.
Trim(s) ==
    LET Solid == {k \in 1..Len(s) : s[k] \notin Whitespace}
    IN  IF Solid = {} THEN <<>>
        ELSE SubSeq(s, CHOOSE a \in Solid : \A k \in Solid : a <= k,
                       CHOOSE b \in Solid : \A k \in Solid : k <= b)

\* s.split(','): the pieces of s between commas, from position k on, cur
\* being the piece read so far.
RECURSIVE SplitCommaFrom(_, _, _)
SplitCommaFrom(s, k, cur) ==
    IF k > Len(s) THEN <<cur>>
    ELSE IF s[k] = "," THEN <<cur>> \o SplitCommaFrom(s, k + 1, <<>>)
    ELSE SplitCommaFrom(s, k + 1, Append(cur, s[k]))

SplitComma(s) == SplitCommaFrom(s, 1, <<>>)

\* Mutant: the pieces are trimmed but empty pieces are kept.
ParseLanguages_KeepsEmpty(value) ==
    [k \in 1..Len(SplitComma(value)) |-> Trim(SplitComma(value)[k])]

\* value.split(',').map(lang => lang.trim()).filter(lang => lang)
ParseLanguages(value) ==
    LET pieces == SplitComma(value)
        trimmed == [k \in 1..Len(pieces) |-> Trim(pieces[k])]
        Truthy(lang) == lang # <<>>
    IN  SelectSeq(trimmed, Truthy)

\* Mutant: the field's text is stored as typed.
ParseTarget_NoDefault(value) == Trim(value)

\* value.trim() || 'en'
ParseTarget(value) == IF Trim(value) # <<>> THEN Trim(value) ELSE En

----------------------------------------------------------------------------
(* Settings *)

BlockTypes == {"codeblock", "quotation", "callout"}

\* A persisted blockType that is none of the three (loadSettings overlays
\* whatever loadData returns).
UnknownBlockType == "unknown"

DEFAULT_SETTINGS ==
    [blockType |-> "codeblock", preferredLanguages |-> <<>>, targetLanguage |-> En]

Fields == {"blockType", "preferredLanguages", "targetLanguage"}

\* Stored data: whether data.json exists, the fields it holds and their
\* values (a field it lacks is written with its default, and never read).
Stored(S, d) == [exists |-> TRUE, present |-> S, data |-> d]

NoData == [exists |-> FALSE, present |-> {}, data |-> DEFAULT_SETTINGS]

\* Mutant: the defaults are assigned last and win over the stored values.
ObjectAssign_DefaultsWin(target, source) == target

\* Object.assign({}, target, source) for stored data source (null or an
\* object): every field of source over target.
ObjectAssign(target, source) ==
    [f \in Fields |-> IF source.exists /\ f \in source.present
                      THEN source.data[f] ELSE target[f]]

----------------------------------------------------------------------------
(* Block formatter *)

\* Mutant: the callout header is joined to the first quoted line by a space.
formatTranslation_HeaderOnSameLine(text) ==
    CASE settings.blockType = "codeblock" ->
            Fence \o <<NL>> \o text \o <<NL>> \o Fence
      [] settings.blockType = "quotation" ->
            Join(MapQuote(Split(text)))
      [] settings.blockType = "callout" ->
            CalloutHeader \o <<" ">> \o Join(MapQuote(Split(text)))
      [] OTHER -> text

formatTranslation(text) ==
    CASE settings.blockType = "codeblock" ->
            Fence \o <<NL>> \o text \o <<NL>> \o Fence
      [] settings.blockType = "quotation" ->
            Join(MapQuote(Split(text)))
      [] settings.blockType = "callout" ->
            CalloutHeader \o <<NL>> \o Join(MapQuote(Split(text)))
      [] OTHER -> text

\* Mutant: the code block counted by its fences alone.
getLinesAdded_FenceCount ==
    CASE settings.blockType = "codeblock" -> 2
      [] settings.blockType = "quotation" -> 1
      [] settings.blockType = "callout" -> 2
      [] OTHER -> 1

getLinesAdded ==
    CASE settings.blockType = "codeblock" -> 3
      [] settings.blockType = "quotation" -> 1
      [] settings.blockType = "callout" -> 2
      [] OTHER -> 1

----------------------------------------------------------------------------
(* Editor *)

Pos(l, c) == [line |-> l, ch |-> c]

PosLess(p, q) == p.line < q.line \/ (p.line = q.line /\ p.ch < q.ch)

getLine(n) == doc[n + 1]

\* The text between two positions, lines joined by newlines.
GetRange(d, from, to) ==
    IF from.line = to.line
    THEN SubSeq(d[from.line + 1], from.ch + 1, to.ch)
    ELSE Join(<<SubSeq(d[from.line + 1], from.ch + 1, Len(d[from.line + 1]))>>
              \o SubSeq(d, from.line + 2, to.line)
              \o <<SubSeq(d[to.line + 1], 1, to.ch)>>)

getSelection == GetRange(doc, selFrom, selTo)

\* editor.replaceRange(text, from, to): the lines before from.line, the
\* lines of (head of from.line + text + tail of to.line), the lines after.
ReplaceRange(d, text, from, to) ==
    LET head == SubSeq(d[from.line + 1], 1, from.ch)
        tail == SubSeq(d[to.line + 1], to.ch + 1, Len(d[to.line + 1]))
    IN  SubSeq(d, 1, from.line)
        \o Split(head \o text \o tail)
        \o SubSeq(d, to.line + 2, Len(d))

\* The position where text inserted at from ends.
EndOfInsert(text, from) ==
    LET pieces == Split(text)
    IN  IF Len(pieces) = 1
        THEN Pos(from.line, from.ch + Len(text))
        ELSE Pos(from.line + Len(pieces) - 1, Len(pieces[Len(pieces)]))

\* A position of the document mapped through an insertion of `added` lines
\* after line `at`.
MapPos(p, at, added) == IF p.line > at THEN Pos(p.line + added, p.ch) ELSE p

Zeros(n) == [k \in 1..n |-> 0]

\* The origin tags after lines from..to were replaced by n lines: the first
\* keeps its tag, the others are new.
ReplaceOrigin(o, from, to, n) ==
    SubSeq(o, 1, from + 1) \o Zeros(n - 1) \o SubSeq(o, to + 2, Len(o))

----------------------------------------------------------------------------
(* Inputs *)

LineSet == {<<>>, <<" ">>, Hello}

Docs == UNION {[1..n -> LineSet] : n \in 1..MaxDocLines}

\* Selection ends are taken at the start, the middle and the end of a line.
AnchorChs(l) == {0, Len(l) \div 2, Len(l)}

Positions(d) == {Pos(n, c) : n \in 0..(Len(d) - 1), c \in 0..5}
                \cap UNION {{Pos(n, c) : c \in AnchorChs(d[n + 1])} : n \in 0..(Len(d) - 1)}

\* A backend response of n lines.
Response(n) == Join([k \in 1..n |-> Bonjour])

Responses == {Response(n) : n \in 1..MaxRespLines}

ClipboardStart == <<"c">>

FixedNotice(m) == [fixed |-> m, text |-> <<>>]
TextNotice(t) == [fixed |-> "", text |-> t]

----------------------------------------------------------------------------
(* Initial state: an open document with a selection or a cursor, settings
   loaded, no command running. *)

Init ==
    /\ doc \in Docs
    /\ selFrom \in Positions(doc)
    /\ selTo \in Positions(doc)
    /\ selFrom = selTo \/ PosLess(selFrom, selTo)
    /\ settings \in {[DEFAULT_SETTINGS EXCEPT !.blockType = b] :
                        b \in BlockTypes \cup {UnknownBlockType}}
    /\ cmd = "none"
    /\ pc = "idle"
    /\ i = 0
    /\ endLine = 0
    /\ startLine = 0
    /\ selection = <<>>
    /\ line = <<>>
    /\ pending = <<>>
    /\ translatedText = <<>>
    /\ notices = <<>>
    /\ clipboard = ClipboardStart
    /\ doc0 = doc
    /\ from0 = selFrom
    /\ to0 = selTo
    /\ origin = [k \in 1..Len(doc) |-> k]
    /\ calls = <<>>
    /\ results = <<>>
    /\ reads = <<>>
    /\ mutations = 0
    /\ loaded = TRUE
    /\ persisted = Stored({"blockType"}, settings)
    /\ saves = <<>>
    /\ edits = 0
    /\ foreign = 0

hostVars == <<loaded, persisted, saves, edits, foreign>>
commandVars == <<cmd, pc, i, endLine, startLine, line, reads, selection, pending,
                 translatedText, calls, results, notices, clipboard>>
history == <<doc0, from0, to0>>
editorVars == <<doc, selFrom, selTo, origin, mutations>>
loopVars == <<i, endLine, startLine, line, reads>>

----------------------------------------------------------------------------
(* inline-translate-line *)

\* Mutant: the last preferred language is the source hint.
TranslateCall_LastPreferred(text, org) ==
    [text |-> text, org |-> org, bt |-> settings.blockType,
     to |-> settings.targetLanguage,
     from |-> IF Len(settings.preferredLanguages) > 0
              THEN settings.preferredLanguages[Len(settings.preferredLanguages)]
              ELSE Auto]

\* Lines 92-95: the call translate(text, {to, from}) that translateText
\* makes before it suspends; org tags the document line the text came from
\* and bt notes the block type at that moment.
TranslateCall(text, org) ==
    [text |-> text, org |-> org, bt |-> settings.blockType,
     to |-> settings.targetLanguage,
     from |-> IF Len(settings.preferredLanguages) > 0
              THEN settings.preferredLanguages[1]
              ELSE Auto]

\* Lines 31-43: the range, and the loop's initialisation.
StartLine ==
    /\ pc = "idle"
    /\ cmd' = "line"
    /\ selection' = getSelection
    /\ IF selection' # <<>>
       THEN startLine' = selFrom.line /\ endLine' = selTo.line
       ELSE startLine' = selTo.line /\ endLine' = selTo.line
    /\ i' = startLine'
    /\ pc' = "cond"
    /\ UNCHANGED <<hostVars, editorVars, history, settings, line, pending, translatedText,
                   notices, clipboard, calls, results, reads>>

\* Line 43: i <= endLine is false.
LoopExit ==
    /\ pc = "cond"
    /\ ~(i <= endLine)
    /\ pc' = "done"
    /\ UNCHANGED <<hostVars, editorVars, history, settings, cmd, loopVars, selection, pending,
                   translatedText, notices, clipboard, calls, results>>

\* Mutant: a skipped line is counted in the offset bookkeeping.
ReadBlank_CountsLine ==
    /\ pc = "cond"
    /\ i <= endLine
    /\ i < Len(doc)
    /\ line' = getLine(i)
    /\ IsBlank(line')
    /\ reads' = Append(reads, [idx |-> i, org |-> origin[i + 1], call |-> 0,
                               end |-> endLine])
    /\ endLine' = endLine + 1
    /\ pc' = "incr"
    /\ UNCHANGED <<hostVars, editorVars, history, settings, cmd, i, startLine,
                   selection, pending, translatedText, notices, clipboard, calls,
                   results>>

\* Lines 43-45: the line read is whitespace only; the body is skipped.
ReadBlank ==
    /\ pc = "cond"
    /\ i <= endLine
    /\ i < Len(doc)
    /\ line' = getLine(i)
    /\ IsBlank(line')
    /\ reads' = Append(reads, [idx |-> i, org |-> origin[i + 1], call |-> 0,
                               end |-> endLine])
    /\ pc' = "incr"
    /\ UNCHANGED <<hostVars, editorVars, history, settings, cmd, i, endLine, startLine,
                   selection, pending, translatedText, notices, clipboard, calls,
                   results>>

\* Mutant: translateText is called without await and the loop goes on.
ReadText_NoAwait ==
    /\ pc = "cond"
    /\ i <= endLine
    /\ i < Len(doc)
    /\ line' = getLine(i)
    /\ ~IsBlank(line')
    /\ pending' = line'
    /\ calls' = Append(calls, TranslateCall(line', origin[i + 1]))
    /\ reads' = Append(reads, [idx |-> i, org |-> origin[i + 1],
                               call |-> Len(calls) + 1, end |-> endLine])
    /\ pc' = "incr"
    /\ UNCHANGED <<hostVars, editorVars, history, settings, cmd, i, endLine, startLine,
                   selection, translatedText, notices, clipboard, results>>

\* Lines 43-46 and 90-92: the line read has text; translateText is called
\* and awaits the backend.
ReadText ==
    /\ pc = "cond"
    /\ i <= endLine
    /\ i < Len(doc)
    /\ line' = getLine(i)
    /\ ~IsBlank(line')
    /\ pending' = line'
    /\ calls' = Append(calls, TranslateCall(line', origin[i + 1]))
    /\ reads' = Append(reads, [idx |-> i, org |-> origin[i + 1],
                               call |-> Len(calls) + 1, end |-> endLine])
    /\ pc' = "await"
    /\ UNCHANGED <<hostVars, editorVars, history, settings, cmd, i, endLine, startLine,
                   selection, translatedText, notices, clipboard, results>>

\* Lines 47-50, after the await: format, insert `text` over line i, advance
\* i by di and endLine by de.
InsertAndAdvance(text, di, de) ==
    /\ \E newDoc \in {ReplaceRange(doc, text, Pos(i, 0), Pos(i, Len(line)))} :
          /\ Len(newDoc) <= MaxLen
          /\ doc' = newDoc
          /\ origin' = ReplaceOrigin(origin, i, i, Len(newDoc) - Len(doc) + 1)
          /\ selFrom' = MapPos(selFrom, i, Len(newDoc) - Len(doc))
          /\ selTo' = MapPos(selTo, i, Len(newDoc) - Len(doc))
    /\ mutations' = mutations + 1
    /\ i' = i + di
    /\ endLine' = endLine + de
    /\ pc' = "incr"
    /\ UNCHANGED <<hostVars, history, settings, cmd, startLine, selection, line, pending,
                   translatedText, notices, clipboard, calls, results, reads>>

\* Mutant: the inserted text lacks its trailing newline.
ResumeLine_NoTrailingNewline ==
    /\ pc = "resume"
    /\ cmd = "line"
    /\ \E formattedTranslation \in {formatTranslation(translatedText)} :
           InsertAndAdvance(line \o <<NL>> \o formattedTranslation,
                            getLinesAdded + 1, getLinesAdded + 1)

\* Mutant: i and endLine advance by the block type the settings had when
\* the translation was requested.
ResumeLine_StaleBlockType ==
    /\ pc = "resume"
    /\ cmd = "line"
    /\ \E formattedTranslation \in {formatTranslation(translatedText)} :
       \E added \in {CASE calls[Len(calls)].bt = "codeblock" -> 3
                       [] calls[Len(calls)].bt = "quotation" -> 1
                       [] calls[Len(calls)].bt = "callout" -> 2
                       [] OTHER -> 1} :
           InsertAndAdvance(line \o <<NL>> \o formattedTranslation \o <<NL>>,
                            added + 1, added + 1)

\* Mutant: the line is replaced by the block, not followed by it.
ResumeLine_DropsOriginal ==
    /\ pc = "resume"
    /\ cmd = "line"
    /\ \E formattedTranslation \in {formatTranslation(translatedText)} :
           InsertAndAdvance(formattedTranslation \o <<NL>>,
                            getLinesAdded + 1, getLinesAdded + 1)

ResumeLine ==
    /\ pc = "resume"
    /\ cmd = "line"
    /\ \E formattedTranslation \in {formatTranslation(translatedText)} :
           InsertAndAdvance(line \o <<NL>> \o formattedTranslation \o <<NL>>,
                            getLinesAdded + 1, getLinesAdded + 1)

\* Line 43: i++
LoopIncr ==
    /\ pc = "incr"
    /\ i' = i + 1
    /\ pc' = "cond"
    /\ UNCHANGED <<hostVars, editorVars, history, settings, cmd, endLine, startLine, selection,
                   line, pending, translatedText, notices, clipboard, calls, results,
                   reads>>

----------------------------------------------------------------------------
(* translateText *)

\* Lines 92-96: the backend answers r.
TranslateReturn(r) ==
    /\ pc = "await"
    /\ translatedText' = r
    /\ results' = Append(results, [text |-> r, failed |-> FALSE])
    /\ pc' = "resume"
    /\ UNCHANGED <<hostVars, editorVars, history, settings, cmd, loopVars, selection, pending,
                   notices, clipboard, calls>>

\* Lines 97-101: the backend call throws; a notice, and `value` comes back.
CatchAndReturn(value) ==
    /\ pc = "await"
    /\ notices' = Append(notices, FixedNotice(ErrorNotice))
    /\ translatedText' = value
    /\ results' = Append(results, [text |-> value, failed |-> TRUE])
    /\ pc' = "resume"
    /\ UNCHANGED <<hostVars, editorVars, history, settings, cmd, loopVars, selection, pending,
                   clipboard, calls>>

\* Mutant: the catch branch returns an empty string instead of its input.
TranslateFail_ReturnsEmpty == CatchAndReturn(<<>>)

\* Mutant: no try/catch; the rejection ends the command's callback.
TranslateFail_Throws ==
    /\ pc = "await"
    /\ results' = Append(results, [text |-> <<>>, failed |-> TRUE])
    /\ pc' = "aborted"
    /\ UNCHANGED <<hostVars, editorVars, history, settings, cmd, loopVars, selection, pending,
                   translatedText, notices, clipboard, calls>>

TranslateFail == CatchAndReturn(pending)

----------------------------------------------------------------------------
(* translate-to-notice *)

\* Lines 61-63 and 67
StartNotice ==
    /\ pc = "idle"
    /\ cmd' = "notice"
    /\ selection' = getSelection
    /\ IF selection' # <<>>
       THEN /\ pending' = selection'
            /\ calls' = Append(calls, TranslateCall(selection', -1))
            /\ pc' = "await"
            /\ UNCHANGED notices
       ELSE /\ notices' = Append(notices, FixedNotice(NoSelectionNotice))
            /\ pc' = "done"
            /\ UNCHANGED <<pending, calls>>
    /\ UNCHANGED <<hostVars, editorVars, history, settings, loopVars, translatedText,
                   clipboard, results>>

\* Mutant: the notice is shown but the clipboard is not written.
ResumeNotice_NoClipboard ==
    /\ pc = "resume"
    /\ cmd = "notice"
    /\ notices' = Append(notices, TextNotice(translatedText))
    /\ pc' = "done"
    /\ UNCHANGED <<hostVars, editorVars, history, settings, cmd, loopVars, selection, pending,
                   translatedText, calls, results, clipboard>>

\* Lines 64-65
ResumeNotice ==
    /\ pc = "resume"
    /\ cmd = "notice"
    /\ notices' = Append(notices, TextNotice(translatedText))
    /\ clipboard' = translatedText
    /\ pc' = "done"
    /\ UNCHANGED <<hostVars, editorVars, history, settings, cmd, loopVars, selection, pending,
                   translatedText, calls, results>>

----------------------------------------------------------------------------
(* translate-to-block *)

\* Mutant: the selection is translated without the `if (selection)` guard.
StartBlock_NoGuard ==
    /\ pc = "idle"
    /\ cmd' = "block"
    /\ selection' = getSelection
    /\ pending' = selection'
    /\ calls' = Append(calls, TranslateCall(selection', -1))
    /\ pc' = "await"
    /\ UNCHANGED <<hostVars, editorVars, history, settings, loopVars, translatedText,
                   clipboard, results, notices>>

\* Lines 77-79 and 83
StartBlock ==
    /\ pc = "idle"
    /\ cmd' = "block"
    /\ selection' = getSelection
    /\ IF selection' # <<>>
       THEN /\ pending' = selection'
            /\ calls' = Append(calls, TranslateCall(selection', -1))
            /\ pc' = "await"
            /\ UNCHANGED notices
       ELSE /\ notices' = Append(notices, FixedNotice(NoSelectionNotice))
            /\ pc' = "done"
            /\ UNCHANGED <<pending, calls>>
    /\ UNCHANGED <<hostVars, editorVars, history, settings, loopVars, translatedText,
                   clipboard, results>>

\* Line 81: editor.replaceSelection(text)
ReplaceSelection(text) ==
    /\ \E newDoc \in {ReplaceRange(doc, text, selFrom, selTo)} :
          /\ Len(newDoc) <= MaxLen
          /\ doc' = newDoc
          /\ origin' = ReplaceOrigin(origin, selFrom.line, selTo.line,
                                     Len(newDoc) - Len(doc) + (selTo.line - selFrom.line) + 1)
          /\ selFrom' = EndOfInsert(text, selFrom)
          /\ selTo' = EndOfInsert(text, selFrom)
    /\ mutations' = mutations + 1
    /\ pc' = "done"
    /\ UNCHANGED <<hostVars, history, settings, cmd, loopVars, selection, pending,
                   translatedText, notices, clipboard, calls, results>>

\* Mutant: the selection is replaced by the formatted translation alone.
ResumeBlock_DropsSelection ==
    /\ pc = "resume"
    /\ cmd = "block"
    /\ \E formattedTranslation \in {formatTranslation(translatedText)} :
           ReplaceSelection(formattedTranslation)

\* Lines 80-81
ResumeBlock ==
    /\ pc = "resume"
    /\ cmd = "block"
    /\ \E formattedTranslation \in {formatTranslation(translatedText)} :
           ReplaceSelection(selection \o <<NL>> \o formattedTranslation)

----------------------------------------------------------------------------
(* Settings: load, edit, save *)

\* What the user can type into the two text fields of the settings tab.
TargetInputs == {<<>>, <<" ">>, Fr, <<" ">> \o De \o <<" ">>}
PreferredInputs ==
    {<<>>, <<",">>, <<" ", ",">>, Fr, Fr \o <<",", " ">> \o De,
     <<" ">> \o Fr \o <<",", ",">> \o De}

\* The stored data a start can find: none, or an object holding some of the
\* fields with values that the settings tab can have stored.
StoredObjects ==
    {NoData} \cup
    {Stored(S, [f \in Fields |-> IF f \in S THEN d[f] ELSE DEFAULT_SETTINGS[f]]) :
        S \in SUBSET Fields,
        d \in [blockType : BlockTypes,
               preferredLanguages : {<<>>, <<Fr>>, <<De, Fr>>},
               targetLanguage : {En, Fr}]}

\* JavaScript runs a callback to its next await: a user event or another
\* callback runs only while no callback of the plugin is running.
Suspended == pc \in {"idle", "await", "done"}

\* Lines 133-135, called by onload (line 22).
LoadSettings ==
    /\ ~loaded
    /\ settings' = ObjectAssign(DEFAULT_SETTINGS, persisted)
    /\ loaded' = TRUE
    /\ UNCHANGED <<persisted, saves, edits, foreign, editorVars, history,
                   commandVars>>

\* The plugin is unloaded (disabled, or the application closed) with no
\* write pending: its settings object is gone until the next onload.
Unload ==
    /\ loaded
    /\ pc = "idle"
    /\ saves = <<>>
    /\ loaded' = FALSE
    /\ settings' = DEFAULT_SETTINGS
    /\ UNCHANGED <<persisted, saves, edits, foreign, editorVars, history,
                   commandVars>>

\* Lines 138-140 up to the await: saveData is handed the settings.
SaveSettings ==
    /\ saves' = Append(saves, settings')
    /\ edits' = edits + 1
    /\ UNCHANGED <<loaded, persisted, foreign, editorVars, history,
                   commandVars>>

\* Lines 167-170.
SetBlockType(value) ==
    /\ loaded
    /\ Suspended
    /\ edits < MaxEdits
    /\ settings' = [settings EXCEPT !.blockType = value]
    /\ SaveSettings

\* Lines 179-182.
SetPreferredLanguages(value) ==
    /\ loaded
    /\ Suspended
    /\ edits < MaxEdits
    /\ settings' = [settings EXCEPT !.preferredLanguages = ParseLanguages(value)]
    /\ SaveSettings

\* Lines 191-194.
SetTargetLanguage(value) ==
    /\ loaded
    /\ Suspended
    /\ edits < MaxEdits
    /\ settings' = [settings EXCEPT !.targetLanguage = ParseTarget(value)]
    /\ SaveSettings

\* The await of line 139 settles: the write of save k reaches the store.
\* Nothing in the plugin orders two writes that overlap.
SaveCompletes(k) ==
    /\ k \in 1..Len(saves)
    /\ persisted' = Stored(Fields, saves[k])
    /\ saves' = SubSeq(saves, 1, k - 1) \o SubSeq(saves, k + 1, Len(saves))
    /\ UNCHANGED <<loaded, settings, edits, foreign, editorVars, history,
                   commandVars>>

\* The plugin before onload has run: no settings yet, whatever is stored.
SettingsInit ==
    /\ doc = <<Hello>>
    /\ selFrom = Pos(0, 0)
    /\ selTo = Pos(0, 0)
    /\ settings = DEFAULT_SETTINGS
    /\ cmd = "none"
    /\ pc = "idle"
    /\ i = 0
    /\ endLine = 0
    /\ startLine = 0
    /\ selection = <<>>
    /\ line = <<>>
    /\ pending = <<>>
    /\ translatedText = <<>>
    /\ notices = <<>>
    /\ clipboard = ClipboardStart
    /\ doc0 = doc
    /\ from0 = selFrom
    /\ to0 = selTo
    /\ origin = <<1>>
    /\ calls = <<>>
    /\ results = <<>>
    /\ reads = <<>>
    /\ mutations = 0
    /\ loaded = FALSE
    /\ persisted \in StoredObjects
    /\ saves = <<>>
    /\ edits = 0
    /\ foreign = 0

SettingsNext ==
    \/ LoadSettings
    \/ Unload
    \/ \E value \in BlockTypes : SetBlockType(value)
    \/ \E value \in PreferredInputs : SetPreferredLanguages(value)
    \/ \E value \in TargetInputs : SetTargetLanguage(value)
    \/ \E k \in 1..Len(saves) : SaveCompletes(k)

SettingsSpec == SettingsInit /\ [][SettingsNext]_vars

----------------------------------------------------------------------------
(* The user at the keyboard while the per-line command awaits line 46 *)

\* The user types text at the cursor.  Edits made before the command starts
\* are the choice of the start document.
UserEdit(text) ==
    /\ cmd = "line"
    /\ pc = "await"
    /\ edits < MaxEdits
    /\ selFrom = selTo
    /\ \E newDoc \in {ReplaceRange(doc, text, selFrom, selTo)} :
          /\ Len(newDoc) <= MaxLen
          /\ doc' = newDoc
          /\ origin' = ReplaceOrigin(origin, selFrom.line, selTo.line,
                                     Len(newDoc) - Len(doc) + 1)
    /\ selFrom' = EndOfInsert(text, selFrom)
    /\ selTo' = EndOfInsert(text, selFrom)
    /\ edits' = edits + 1
    /\ foreign' = foreign + 1
    /\ UNCHANGED <<loaded, persisted, saves, mutations, settings, history,
                   commandVars>>

----------------------------------------------------------------------------

Next ==
    \/ StartLine
    \/ LoopExit
    \/ ReadBlank
    \/ ReadText
    \/ ResumeLine
    \/ LoopIncr
    \/ \E r \in Responses : TranslateReturn(r)
    \/ TranslateFail
    \/ StartNotice
    \/ ResumeNotice
    \/ StartBlock
    \/ ResumeBlock

Spec == Init /\ [][Next]_vars

\* The per-line command alone.  It reads only the line numbers of the
\* selection (lines 36-39), so the selection ends are taken at ch 0: every
\* document, every range of lines and every block type is still covered.
LineInit == Init /\ selFrom.ch = 0 /\ selTo.ch = 0

LineNext ==
    \/ StartLine
    \/ LoopExit
    \/ ReadBlank
    \/ ReadText
    \/ ResumeLine
    \/ LoopIncr
    \/ \E r \in Responses : TranslateReturn(r)
    \/ TranslateFail

\* The event loop runs every continuation that is ready, and the backend
\* call settles; invoking a command is up to the user.
Fairness ==
    /\ WF_vars(LoopExit)
    /\ WF_vars(ReadBlank)
    /\ WF_vars(ReadText)
    /\ WF_vars(ResumeLine)
    /\ WF_vars(LoopIncr)
    /\ WF_vars((\E r \in Responses : TranslateReturn(r)) \/ TranslateFail)

LiveSpec == LineInit /\ [][LineNext]_vars /\ Fairness

\* The per-line command with the user at the keyboard while it awaits:
\* settings edits and typing.  The stored data plays no part in a command,
\* so the writes of the saves are left pending.
ConcNext ==
    \/ LineNext
    \/ \E value \in BlockTypes : pc = "await" /\ SetBlockType(value)
    \/ \E value \in {Fr \o <<",", " ">> \o De} :
           pc = "await" /\ SetPreferredLanguages(value)
    \/ \E value \in {Fr} : pc = "await" /\ SetTargetLanguage(value)
    \/ \E text \in {<<"x">>, <<NL>>} : UserEdit(text)

\* The documents are one line shorter than for the command alone.
ConcInit == LineInit /\ Len(doc) < MaxDocLines

ConcSpec == ConcInit /\ [][ConcNext]_vars

TypeOK ==
    /\ Len(doc) = Len(origin)
    /\ pc \in {"idle", "cond", "incr", "await", "resume", "done"}
    /\ cmd \in {"none", "line", "notice", "block"}

----------------------------------------------------------------------------
(* Vocabulary of the properties *)

\* Tags (line number + 1 in doc0) of the range the per-line command was given.
RangeTags == (from0.line + 1)..(to0.line + 1)

\* Those of them that have text.
TextTags == {t \in RangeTags : ~IsBlank(doc0[t])}

LineRun == cmd = "line"
LineDone == cmd = "line" /\ pc = "done"

\* Every backend answer so far was a single line.
SingleLineSoFar == \A k \in 1..Len(results) : Newlines(results[k].text) = 0

\* The getLine calls that led to a translateText call.
TranslatedReads == {k \in 1..Len(reads) : reads[k].call # 0}

\* The replaceRange of read k has been applied.
Applied(k) == k < Len(reads) \/ pc \in {"incr", "cond", "done"}

\* The current index (0-based) of the line tagged t.
IndexOf(t) == CHOOSE n \in 0..(Len(origin) - 1) : origin[n + 1] = t

\* The resume step never runs into the length cap of the model.
CapNotReached ==
    pc = "resume" =>
        Len(doc) + Newlines(formatTranslation(translatedText)) + 2 <= MaxLen

----------------------------------------------------------------------------
(* C1 *)

\* C1: the per-line command calls translateText exactly once per line of the
\* range that had text at command start, never more, and no line the command
\* inserted is read and passed to translateText, whatever the backend returns.
C1_ExactlyNCalls ==
    LineRun =>
        /\ Len(calls) <= Cardinality(TextTags)
        /\ \A k \in 1..Len(calls) : calls[k].org # 0
        /\ pc = "done" => Len(calls) = Cardinality(TextTags)

----------------------------------------------------------------------------
(* C2 *)

\* C2: no original line is skipped: when the per-line command ends, each line
\* of the original range that had text was read and translated, in original
\* order, and its formatted translation stands immediately after it.
C2_NoLineSkipped ==
    LineDone =>
        /\ \A k \in TranslatedReads : reads[k].org \in TextTags
        /\ \A k, l \in TranslatedReads : k < l => reads[k].org < reads[l].org
        /\ \A t \in TextTags :
              \E k \in TranslatedReads :
                 /\ reads[k].org = t
                 /\ LET block == Split(formatTranslation(results[reads[k].call].text))
                        at == IndexOf(t)
                    IN  /\ at + 1 + Len(block) <= Len(doc)
                        /\ SubSeq(doc, at + 2, at + 1 + Len(block)) = block

----------------------------------------------------------------------------
(* C3 *)

\* C3 as stated: for the three block types and single-line x, getLinesAdded()
\* is the number of newlines formatTranslation(x) has beyond those of x.
C3_NewlinesIntroduced ==
    (pc = "resume" /\ settings.blockType \in BlockTypes
                   /\ Newlines(translatedText) = 0) =>
        getLinesAdded = Newlines(formatTranslation(translatedText))
                        - Newlines(translatedText)

\* C3 amended: for the three block types and single-line x, getLinesAdded()
\* is the number of lines formatTranslation(x) occupies, one more than the
\* number of newlines it contains.
C3_LinesOfBlock ==
    (pc = "resume" /\ settings.blockType \in BlockTypes
                   /\ Newlines(translatedText) = 0) =>
        getLinesAdded = Newlines(formatTranslation(translatedText)) + 1

C3_Witness ==
    /\ pc = "resume"
    /\ settings.blockType = "callout"
    /\ translatedText = Bonjour

----------------------------------------------------------------------------
(* C4 *)

\* The step of lines 48-50 on single-line backend text: the document grows
\* by getLinesAdded()+1 lines and i and endLine advance by that amount.
C4_Growth ==
    (LineRun /\ pc = "resume" /\ pc' = "incr" /\ SingleLineSoFar) =>
        /\ Len(doc') = Len(doc) + getLinesAdded + 1
        /\ i' = i + getLinesAdded + 1
        /\ endLine' = endLine + getLinesAdded + 1

\* The line the loop reads next is the first one after the inserted block:
\* the original line that follows the ones read so far.
C4_NextRead ==
    i <= endLine =>
        /\ i < Len(doc)
        /\ origin[i + 1] = from0.line + 1 + Len(reads)
        /\ \A n \in 0..(i - 1) : origin[n + 1] # 0 => origin[n + 1] < origin[i + 1]

\* endLine is the current index of the line that was last in the range.
C4_EndTracks == endLine < Len(doc) /\ origin[endLine + 1] = to0.line + 1

\* C4 as stated: on single-line backend text each processed line grows the
\* document by getLinesAdded()+1 lines, i and endLine advance by that amount,
\* and at every evaluation of the loop condition endLine is the current index
\* of the original last line and the next line read is the first one after
\* the inserted block.
C4_LoopInvariant ==
    [][ /\ C4_Growth
        /\ (LineRun /\ pc = "cond" /\ SingleLineSoFar)' => (C4_EndTracks /\ C4_NextRead)'
      ]_vars

\* C4 amended: the same, except that endLine is the index of the original
\* last line only at the evaluations that admit another iteration; at the
\* evaluation that ends the loop i = endLine + 1, and endLine is the index of
\* the original last line if that line was blank and of the last line
\* inserted after it otherwise.
C4_LoopInvariantAmended ==
    [][ /\ C4_Growth
        /\ (LineRun /\ pc = "cond" /\ SingleLineSoFar)' =>
              /\ C4_NextRead'
              /\ (i <= endLine)' => C4_EndTracks'
              /\ ~(i <= endLine)' =>
                    /\ i' = endLine' + 1
                    /\ endLine' < Len(doc')
                    /\ IF IsBlank(doc0[to0.line + 1])
                       THEN C4_EndTracks'
                       ELSE /\ origin'[endLine' + 1] = 0
                            /\ origin'[endLine' - getLinesAdded] = to0.line + 1
      ]_vars

C4_Witness ==
    /\ LineRun /\ pc = "cond" /\ SingleLineSoFar
    /\ settings.blockType = UnknownBlockType
    /\ Len(results) = 1
    /\ i <= endLine
    /\ endLine > to0.line

----------------------------------------------------------------------------
(* C5 *)

\* Read k took the line Hello, the backend answered Bonjour, the block type
\* is codeblock, and the replacement has been made.
C5_Case(k) ==
    /\ LineRun
    /\ settings.blockType = "codeblock"
    /\ reads[k].call # 0
    /\ Len(results) >= reads[k].call
    /\ calls[reads[k].call].text = Hello
    /\ results[reads[k].call].text = Bonjour
    /\ Applied(k)

\* C5 as stated: the document at i becomes Hello, an opening fence, Bonjour
\* and a closing fence, and the next line index the loop inspects is i + 4.
C5_NextIsPlus4 ==
    \A k \in 1..Len(reads) :
        C5_Case(k) =>
            /\ reads[k].idx + 4 <= Len(doc)
            /\ SubSeq(doc, reads[k].idx + 1, reads[k].idx + 4)
                  = <<Hello, Fence, Bonjour, Fence>>
            /\ k < Len(reads) => reads[k + 1].idx = reads[k].idx + 4

\* C5 amended: the document at i becomes Hello, an opening fence, Bonjour, a
\* closing fence and an empty line, and the next line index the loop
\* inspects, if it inspects one, is i + 5.
C5_NextIsPlus5 ==
    \A k \in 1..Len(reads) :
        C5_Case(k) =>
            /\ reads[k].idx + 5 <= Len(doc)
            /\ SubSeq(doc, reads[k].idx + 1, reads[k].idx + 5)
                  = <<Hello, Fence, Bonjour, Fence, <<>>>>
            /\ k < Len(reads) => reads[k + 1].idx = reads[k].idx + 5

C5_Witness ==
    /\ Len(reads) >= 2
    /\ C5_Case(1)
    /\ reads[2].idx = reads[1].idx + 5

----------------------------------------------------------------------------
(* C6 *)

\* The last getLine returned a whitespace-only line and i++ is still to run.
C6_BlankRead ==
    /\ LineRun
    /\ pc = "incr"
    /\ Len(reads) > 0
    /\ reads[Len(reads)].call = 0

\* C6: an iteration whose line is empty or whitespace-only calls neither
\* translateText nor replaceRange, leaves the document and endLine unchanged
\* and advances i by exactly 1.
C6_BlankLineFrame ==
    [][ /\ (LineRun /\ pc = "cond" /\ i <= endLine /\ i < Len(doc)
               /\ \A k \in 1..Len(doc[i + 1]) : doc[i + 1][k] \in {" ", "\t", NL}) =>
              /\ pc' = "incr"
              /\ i' = i
              /\ UNCHANGED <<doc, endLine, calls, results, mutations, notices>>
        /\ C6_BlankRead =>
              /\ pc' = "cond"
              /\ i' = i + 1
              /\ UNCHANGED <<doc, endLine, calls, results, mutations, notices>>
      ]_vars

C6_Witness ==
    /\ LineRun
    /\ pc = "cond"
    /\ Len(reads) > 0
    /\ reads[Len(reads)].call = 0
    /\ doc[reads[Len(reads)].idx + 1] = <<" ">>
    /\ i = reads[Len(reads)].idx + 1
    /\ endLine = reads[Len(reads)].end

----------------------------------------------------------------------------
(* C7 *)

\* The whole text of a document, and its parts before and after a position.
Flat(d) == Join(d)
Before(d, p) == GetRange(d, Pos(0, 0), p)
After(d, p) == GetRange(d, p, Pos(Len(d) - 1, Len(d[Len(d)])))

\* The translateText call that just returned had failed.
C7_Failed == Len(results) > 0 /\ results[Len(results)].failed

\* C7: when the backend call fails, translateText shows a notice, raises
\* nothing and returns its input, the command then inserts the formatted
\* original text, and the per-line command goes on to the next line.
C7_FailureContained ==
    [][ /\ (pc = "await" /\ C7_Failed') =>
              /\ notices' = Append(notices, FixedNotice(ErrorNotice))
              /\ translatedText' = pending
              /\ pc' = "resume"
              /\ doc' = doc
        /\ (pc = "resume" /\ C7_Failed /\ cmd = "line") =>
              /\ doc' = SubSeq(doc, 1, i + 1)
                        \o Split(formatTranslation(doc[i + 1]))
                        \o << <<>> >>
                        \o SubSeq(doc, i + 2, Len(doc))
              /\ pc' = "incr"
        /\ (pc = "resume" /\ C7_Failed /\ cmd = "block") =>
              /\ Flat(doc') = Before(doc, selFrom) \o selection \o <<NL>>
                              \o formatTranslation(selection) \o After(doc, selTo)
              /\ pc' = "done"
      ]_vars

C7_Witness ==
    /\ LineRun
    /\ pc = "cond"
    /\ i <= endLine
    /\ C7_Failed
    /\ Len(notices) = Len(results)

----------------------------------------------------------------------------
(* C8 *)

\* C8: the per-line command always completes, for every document, range,
\* block type and backend behaviour, although endLine grows during the run.
C8_Terminates == LineRun ~> (pc = "done")

C8_Witness ==
    /\ LineDone
    /\ endLine > to0.line
    /\ Len(results) >= 2
    /\ \E k \in 1..Len(results) : results[k].failed
    /\ \E k \in 1..Len(results) : Newlines(results[k].text) > 0

----------------------------------------------------------------------------
(* C9 *)

\* C9: translate-to-notice or translate-to-block on an empty selection shows
\* the notice "No text selected for translation.", makes no translation
\* call and changes neither the clipboard nor the document.
C9_NothingSelected ==
    (cmd \in {"notice", "block"} /\ from0 = to0) =>
        /\ pc = "done"
        /\ notices = <<FixedNotice(NoSelectionNotice)>>
        /\ calls = <<>>
        /\ clipboard = ClipboardStart
        /\ doc = doc0
        /\ mutations = 0

C9_Witness ==
    /\ cmd = "block"
    /\ from0 = to0
    /\ pc = "done"
    /\ ~IsBlank(doc0[from0.line + 1])

----------------------------------------------------------------------------
(* C10 *)

\* C10: translate-to-block on a non-empty selection S makes exactly one
\* translation call, on S, and exactly one document mutation, which replaces
\* the selection by S, a newline and formatTranslation(T), T being what
\* translateText returned (S when the backend failed); the text outside the
\* selection is unchanged.
C10_BlockInsert ==
    (cmd = "block" /\ from0 # to0) =>
        LET S == GetRange(doc0, from0, to0)
        IN  /\ Len(calls) = 1
            /\ calls[1].text = S
            /\ pc # "done" => (doc = doc0 /\ mutations = 0)
            /\ pc = "done" =>
                  /\ mutations = 1
                  /\ Len(results) = 1
                  /\ results[1].failed => results[1].text = S
                  /\ Flat(doc) = Before(doc0, from0) \o S \o <<NL>>
                                 \o formatTranslation(results[1].text)
                                 \o After(doc0, to0)

C10_Witness ==
    /\ cmd = "block"
    /\ pc = "done"
    /\ settings.blockType = "quotation"
    /\ from0.line < to0.line
    /\ from0.ch > 0
    /\ to0.ch < Len(doc0[to0.line + 1])
    /\ ~results[1].failed

----------------------------------------------------------------------------
(* C11 *)

\* C11: translate-to-notice on a non-empty selection S never mutates the
\* document; when it ends, a notice with what translateText returned has
\* been shown and the clipboard holds it (S itself when the backend failed).
C11_NoticeAndClipboard ==
    (cmd = "notice" /\ from0 # to0) =>
        /\ doc = doc0
        /\ mutations = 0
        /\ pc = "done" =>
              /\ Len(results) = 1
              /\ results[1].failed => results[1].text = GetRange(doc0, from0, to0)
              /\ notices[Len(notices)] = TextNotice(results[1].text)
              /\ clipboard = results[1].text

C11_Witness ==
    /\ cmd = "notice"
    /\ pc = "done"
    /\ from0.line < to0.line
    /\ results[1].failed
    /\ clipboard = GetRange(doc0, from0, to0)

----------------------------------------------------------------------------
(* C14 *)

\* C14: at most one translation call of a command is in flight at any time,
\* and the per-line command starts the translation of a line only after every
\* earlier translation has returned, its replaceRange has been applied and i
\* and endLine have been advanced for it.
C14_OneInFlight ==
    /\ Len(calls) - Len(results) \in {0, 1}
    /\ (LineRun /\ Len(calls) > Len(results)) =>
           /\ pc = "await"
           /\ mutations = Len(results)
           /\ \A j \in TranslatedReads : \A k \in TranslatedReads :
                  (j < k /\ reads[k].call = reads[j].call + 1) =>
                      /\ reads[k].end = reads[j].end + getLinesAdded + 1
                      /\ reads[k].idx >= reads[j].idx + getLinesAdded + 2

\* The second translation of a run is in flight; the first has been applied.
C14_Witness ==
    /\ LineRun
    /\ pc = "await"
    /\ Len(calls) = 2
    /\ Len(results) = 1
    /\ mutations = 1

----------------------------------------------------------------------------
(* C19 *)

\* C19: the step that follows the await formats the inserted text and
\* advances i and endLine by one and the same block type, the one in the
\* settings at that step, also when the block type was changed while the
\* translation was in flight: for a single-line answer the document grows
\* by exactly the number of lines that i and endLine advance.
C19_SameBlockType ==
    [][(LineRun /\ pc = "resume" /\ pc' = "incr") =>
          /\ settings' = settings
          /\ i' - i = getLinesAdded + 1
          /\ endLine' - endLine = getLinesAdded + 1
          /\ Newlines(translatedText) = 0 =>
                 /\ Len(doc') - Len(doc) = i' - i
                 /\ i + Len(doc') - Len(doc) <= Len(doc')
                 /\ SubSeq(doc', i + 2, i + Len(doc') - Len(doc)) =
                        Split(formatTranslation(translatedText))]_vars

\* The block type was changed during the await and the step has run.
C19_Witness ==
    /\ LineRun
    /\ pc = "incr"
    /\ foreign = 0
    /\ Len(calls) = mutations
    /\ Len(calls) > 0
    /\ calls[Len(calls)].bt = "quotation"
    /\ settings.blockType = "codeblock"
    /\ Newlines(translatedText) = 0

----------------------------------------------------------------------------
(* C20 *)

\* C20: the per-line command only inserts lines.  In every state of a run,
\* whatever the block type and the backend's answers, every line of the start
\* document is still in the document, unmodified, and these lines are in
\* their original order.
C20_OnlyInserts ==
    LineRun =>
        /\ Len(origin) = Len(doc)
        /\ \A t \in 1..Len(doc0) :
               \E n \in 1..Len(doc) : origin[n] = t /\ doc[n] = doc0[t]
        /\ \A m \in 1..Len(origin) : \A n \in 1..Len(origin) :
               (m < n /\ origin[m] # 0 /\ origin[n] # 0) => origin[m] < origin[n]

\* A finished run over three lines with a multi-line answer and a failure.
C20_Witness ==
    /\ LineDone
    /\ Len(doc0) = 3
    /\ mutations >= 2
    /\ \E k \in 1..Len(results) : Newlines(results[k].text) > 0
    /\ \E k \in 1..Len(results) : results[k].failed

----------------------------------------------------------------------------
(* C12 *)

\* C12: settings round trip.  A save that completes stores every field of the
\* settings it was given, and loadSettings yields, field by field, the stored
\* value where the stored data has the field and the default (codeblock, [],
\* "en") where it has not, or where nothing is stored; so a load after a
\* completed save yields the settings that were saved.
C12_RoundTrip ==
    [][/\ Len(saves') < Len(saves) =>
              /\ persisted'.exists
              /\ persisted'.present = Fields
              /\ \E k \in 1..Len(saves) : persisted'.data = saves[k]
       /\ (~loaded /\ loaded') =>
              /\ \A f \in Fields :
                     (persisted.exists /\ f \in persisted.present)
                         => settings'[f] = persisted.data[f]
              /\ \A f \in Fields :
                     ~(persisted.exists /\ f \in persisted.present)
                         => settings'[f] = DEFAULT_SETTINGS[f]
              /\ DEFAULT_SETTINGS.blockType = "codeblock"
              /\ DEFAULT_SETTINGS.preferredLanguages = <<>>
              /\ DEFAULT_SETTINGS.targetLanguage = En]_vars

\* A load over stored data that holds only a target language.
C12_Witness ==
    /\ loaded
    /\ edits = 0
    /\ persisted.exists
    /\ persisted.present = {"targetLanguage"}
    /\ persisted.data.targetLanguage = Fr
    /\ settings.targetLanguage = Fr
    /\ settings.blockType = "codeblock"
    /\ settings.preferredLanguages = <<>>

----------------------------------------------------------------------------
(* C13 *)

\* C13: once loaded, settings.targetLanguage is never the empty text, whatever
\* is typed into the target-language field: an empty or whitespace-only entry
\* becomes "en".
C13_TargetNonEmpty ==
    /\ loaded => settings.targetLanguage # <<>>
    /\ \A value \in TargetInputs : IsBlank(value) => ParseTarget(value) = En

\* The stored target language is "fr" and the field was cleared: "en".
C13_Witness ==
    /\ loaded
    /\ edits = 1
    /\ persisted.exists
    /\ "targetLanguage" \in persisted.present
    /\ persisted.data.targetLanguage = Fr
    /\ settings.targetLanguage = En

----------------------------------------------------------------------------
(* C15 *)

\* C15: from the start of the per-line command to its completion nothing
\* but the command mutates the document.
C15_SoleMutator ==
    (LineRun /\ pc # "done") => foreign = 0

----------------------------------------------------------------------------
(* C16 *)

\* C16: every translate call has the target settings.targetLanguage and, as
\* source hint, the first entry of settings.preferredLanguages, or 'auto'
\* when that list is empty, as the settings are at the moment of the call.
C16_LanguagesOfCall ==
    [][Len(calls') > Len(calls) =>
          LET call == calls'[Len(calls')]
          IN  /\ call.to = settings.targetLanguage
              /\ settings.preferredLanguages # <<>>
                     => call.from = settings.preferredLanguages[1]
              /\ settings.preferredLanguages = <<>> => call.from = Auto]_vars

\* Two calls of one run, with both language settings edited in between.
C16_Witness ==
    /\ LineRun
    /\ Len(calls) = 2
    /\ calls[1].from = Auto
    /\ calls[1].to = En
    /\ calls[2].from = Fr
    /\ calls[2].to = Fr
    /\ settings.preferredLanguages = <<Fr, De>>

----------------------------------------------------------------------------
(* C17 *)

\* C17: once loaded, every entry of settings.preferredLanguages is non-empty
\* and neither starts nor ends with whitespace; an empty or separators-only
\* entry of the field gives the empty list.
C17_PreferredTrimmed ==
    /\ loaded =>
          \A k \in 1..Len(settings.preferredLanguages) :
              LET lang == settings.preferredLanguages[k]
              IN  /\ lang # <<>>
                  /\ lang[1] \notin Whitespace
                  /\ lang[Len(lang)] \notin Whitespace
    /\ \A value \in PreferredInputs :
          (\A k \in 1..Len(value) : value[k] \in Whitespace \cup {","})
              => ParseLanguages(value) = <<>>

\* The field was edited to text with blanks and an empty piece.
C17_Witness ==
    /\ loaded
    /\ edits > 0
    /\ settings.preferredLanguages = <<Fr, De>>

----------------------------------------------------------------------------
(* C18 *)

\* C18: after any settings edits, once no save is pending the stored
\* settings equal the settings in memory, field for field.
C18_AllSavesPersisted ==
    (loaded /\ edits > 0 /\ saves = <<>>) =>
        /\ persisted.exists
        /\ persisted.present = Fields
        /\ persisted.data = settings

============================================================================
